---- MODULE Spec2Model ----
(***************************************************************************)
(* Model of ps-vita-renamer.py: the string functions (clean_title_name,    *)
(* extract_title_id_from_filename, is_correctly_formatted,                 *)
(* generate_new_filename), the table loader load_csv_data and the loop of  *)
(* rename_files.                                                           *)
(*                                                                         *)
(* A Python str is a sequence of one-character strings.  None and the      *)
(* empty str are both the empty sequence: the code only ever tests them    *)
(* with "if not x".                                                        *)
(***************************************************************************)
EXTENDS Integers, Sequences, FiniteSets, TLC

VARIABLES
    pc,             \* position in rename_files / in a pure-function call
    csv_rows,       \* rows of the CSV file as csv.DictReader yields them
    dir_exists,     \* os.path.isdir(directory_path)
    dry_run,        \* the dry_run argument
    games_data,     \* the dict returned by load_csv_data, in insertion order
    listing,        \* the result of os.listdir, in the order it is iterated
    idx,            \* index in listing of the file the loop handles next
    fs,             \* names that exist in the directory (the filesystem)
    renamed_files,  \* the renamed_files list
    errors,         \* the errors list
    filename,       \* loop local: the file handled last
    game_data,      \* loop local: the record found for it (NoRecord = None)
    title_id,       \* loop local: the identifier matched for it
    arg,            \* argument of a pure-function call
    ret             \* results of the pure-function calls made on arg

vars == <<pc, csv_rows, dir_exists, dry_run, games_data, listing, idx, fs,
          renamed_files, errors, filename, game_data, title_id, arg, ret>>

(***************************************************************************)
(* Bounds of the model.                                                    *)
(***************************************************************************)
MaxRows == 2        \* rows in the CSV file
MaxFiles == 2       \* entries in the directory
MaxTitleLen == 4    \* characters of a title given to clean_title_name
MaxParts == 3       \* fragments of a filename given to the extractor

(***************************************************************************)
(* Characters and the classes the regular expressions use.                 *)
(***************************************************************************)
Upper == {"A", "B", "C", "D", "E", "F", "G", "H", "I", "J", "K", "L", "M",
          "N", "O", "P", "Q", "R", "S", "T", "U", "V", "W", "X", "Y", "Z"}
Lower == {"a", "b", "c", "d", "e", "f", "g", "h", "i", "j", "k", "l", "m",
          "n", "o", "p", "q", "r", "s", "t", "u", "v", "w", "x", "y", "z"}
Digit == {"0", "1", "2", "3", "4", "5", "6", "7", "8", "9"}
\* \w
Word == Upper \cup Lower \cup Digit \cup {"_"}
\* \s, and the characters str.strip() removes
Space == {" ", "\t", "\n", "\r", "\f"}

None == <<>>

\* s[k .. k+Len(lit)-1] = lit
HasAt(s, k, lit) ==
    /\ k >= 1
    /\ k + Len(lit) - 1 <= Len(s)
    /\ \A j \in 1..Len(lit) : s[k + j - 1] = lit[j]

\* lit in s
Contains(s, lit) == \E k \in 1..(Len(s) + 1) : HasAt(s, k, lit)

Min(S) == CHOOSE x \in S : \A y \in S : x <= y

UpperLetters == <<"A", "B", "C", "D", "E", "F", "G", "H", "I", "J", "K", "L", "M",
                  "N", "O", "P", "Q", "R", "S", "T", "U", "V", "W", "X", "Y", "Z">>
LowerLetters == <<"a", "b", "c", "d", "e", "f", "g", "h", "i", "j", "k", "l", "m",
                  "n", "o", "p", "q", "r", "s", "t", "u", "v", "w", "x", "y", "z">>

LowerMap == [c \in Upper |-> LowerLetters[CHOOSE k \in 1..26 : UpperLetters[k] = c]]

\* str.lower() on one character
LowerOf(c) == IF c \in Upper THEN LowerMap[c] ELSE c

lower(s) == [k \in 1..Len(s) |-> LowerOf(s[k])]

endswith(s, lit) == HasAt(s, Len(s) - Len(lit) + 1, lit)

\* str.strip()
RECURSIVE lstrip(_)
lstrip(s) ==
    IF s # <<>> /\ s[1] \in Space THEN lstrip(Tail(s)) ELSE s

RECURSIVE rstrip(_)
rstrip(s) ==
    IF s # <<>> /\ s[Len(s)] \in Space THEN rstrip(SubSeq(s, 1, Len(s) - 1)) ELSE s

strip(s) == rstrip(lstrip(s))

(***************************************************************************)
(* clean_title_name                                                        *)
(***************************************************************************)
\* [<>:"/\\|?*]
invalid_chars == {"<", ">", ":", "\"", "/", "\\", "|", "?", "*"}

\* re.sub(invalid_chars, '', title)
RemoveInvalid(s) == SelectSeq(s, LAMBDA c : c \notin invalid_chars)

\* re.sub(r'[^\w\s\-\.\(\)\[\]]', ' ', cleaned)
ReplaceSpecial(s) ==
    [k \in 1..Len(s) |->
        IF s[k] \in Word \cup Space \cup {"-", ".", "(", ")", "[", "]"}
        THEN s[k] ELSE " "]

\* re.sub(r'\s+', ' ', cleaned)
RECURSIVE CollapseSpaces(_)
CollapseSpaces(s) ==
    IF s = <<>> THEN <<>>
    ELSE IF s[1] \in Space
         THEN <<" ">> \o CollapseSpaces(lstrip(s))
         ELSE <<s[1]>> \o CollapseSpaces(Tail(s))

\* the same steps with strip() applied to the raw title instead of the result
clean_title_name_StripFirst(title) ==
    CollapseSpaces(ReplaceSpecial(RemoveInvalid(strip(title))))

clean_title_name(title) ==
    strip(CollapseSpaces(ReplaceSpecial(RemoveInvalid(title))))

(***************************************************************************)
(* extract_title_id_from_filename                                          *)
(***************************************************************************)
\* r'-(PC[SABE]\w{5})[_-]' matches at position k
PatternPCAt(s, k) ==
    /\ k + 9 <= Len(s)
    /\ s[k] = "-"
    /\ s[k + 1] = "P"
    /\ s[k + 2] = "C"
    /\ s[k + 3] \in {"S", "A", "B", "E"}
    /\ \A j \in 4..8 : s[k + j] \in Word
    /\ s[k + 9] \in {"_", "-"}

\* re.search with the PC pattern: group(1) of the leftmost match
SearchPC(s) ==
    LET at == {k \in 1..Len(s) : PatternPCAt(s, k)}
    IN  IF at = {} THEN None ELSE SubSeq(s, Min(at) + 1, Min(at) + 8)

\* r'<XY>\d+-([A-Z]{4}\d{5})_' matches at position k with n digits
PatternRegionAt(s, prefix, k, n) ==
    /\ k + n + 12 <= Len(s)
    /\ HasAt(s, k, prefix)
    /\ \A j \in 1..n : s[k + 1 + j] \in Digit
    /\ s[k + 2 + n] = "-"
    /\ \A j \in 1..4 : s[k + 2 + n + j] \in Upper
    /\ \A j \in 5..9 : s[k + 2 + n + j] \in Digit
    /\ s[k + 12 + n] = "_"

\* re.search with a region pattern: group(1) of the leftmost match
SearchRegion(s, prefix) ==
    LET at == {k \in 1..Len(s) :
                 HasAt(s, k, prefix) /\ \E n \in 1..Len(s) : PatternRegionAt(s, prefix, k, n)}
    IN  IF at = {} THEN None
        ELSE LET k == Min(at)
                 n == CHOOSE m \in 1..Len(s) : PatternRegionAt(s, prefix, k, m)
             IN  SubSeq(s, k + 3 + n, k + 11 + n)

\* the region rules tried before the PC rule
extract_title_id_from_filename_RegionFirst(name) ==
    LET match == SearchPC(name)
        match2 == SearchRegion(name, <<"U", "P">>)
        match3 == SearchRegion(name, <<"H", "P">>)
        match4 == SearchRegion(name, <<"E", "P">>)
        match5 == SearchRegion(name, <<"J", "P">>)
    IN  IF match2 # None THEN match2
        ELSE IF match3 # None THEN match3
        ELSE IF match4 # None THEN match4
        ELSE IF match5 # None THEN match5
        ELSE match

extract_title_id_from_filename(name) ==
    LET match == SearchPC(name)
        match2 == SearchRegion(name, <<"U", "P">>)
        match3 == SearchRegion(name, <<"H", "P">>)
        match4 == SearchRegion(name, <<"E", "P">>)
        match5 == SearchRegion(name, <<"J", "P">>)
    IN  IF match # None THEN match
        ELSE IF match2 # None THEN match2
        ELSE IF match3 # None THEN match3
        ELSE IF match4 # None THEN match4
        ELSE IF match5 # None THEN match5
        ELSE None

(***************************************************************************)
(* is_correctly_formatted                                                  *)
(***************************************************************************)
\* r'.+\s\[UPDATE\s[\d\.]+\]\[[A-Z]{4}\d{5}\]\(axekin\.com\)\.pkg' matches
\* the first `last` characters of s, the version taking v characters
CanonicalUpTo(s, last, v) ==
    LET t == last - 37 - v      \* what is left for '.+'
    IN  /\ t >= 1
        /\ \A j \in 1..t : s[j] # "\n"
        /\ s[t + 1] \in Space
        /\ HasAt(s, t + 2, <<"[", "U", "P", "D", "A", "T", "E">>)
        /\ s[t + 9] \in Space
        /\ \A j \in 1..v : s[t + 9 + j] \in Digit \cup {"."}
        /\ HasAt(s, t + 10 + v, <<"]", "[">>)
        /\ \A j \in 1..4 : s[t + 11 + v + j] \in Upper
        /\ \A j \in 5..9 : s[t + 11 + v + j] \in Digit
        /\ HasAt(s, t + 21 + v,
                 <<"]", "(", "a", "x", "e", "k", "i", "n", ".", "c", "o", "m", ")",
                   ".", "p", "k", "g">>)

\* re.match(pattern, filename); '$' is the end of the string or the position
\* before a final newline
is_correctly_formatted(name) ==
    \/ \E v \in 1..Len(name) : CanonicalUpTo(name, Len(name), v)
    \/ /\ name # <<>>
       /\ name[Len(name)] = "\n"
       /\ \E v \in 1..Len(name) : CanonicalUpTo(name, Len(name) - 1, v)

(***************************************************************************)
(* generate_new_filename                                                   *)
(***************************************************************************)
generate_new_filename(title_name, version, id) ==
    clean_title_name(title_name)
        \o <<" ", "[", "U", "P", "D", "A", "T", "E", " ">> \o version
        \o <<"]", "[">> \o id
        \o <<"]", "(", "a", "x", "e", "k", "i", "n", ".", "c", "o", "m", ")",
             ".", "p", "k", "g">>

(***************************************************************************)
(* load_csv_data                                                           *)
(***************************************************************************)
\* what game_data holds while it is None; a loaded record never has an
\* empty media_id
NoRecord == [title_name |-> <<>>, version |-> <<>>, media_id |-> <<>>]

\* filename in games_data
HasKey(d, k) == \E j \in 1..Len(d) : d[j].key = k

\* games_data[filename]
Get(d, k) == d[CHOOSE j \in 1..Len(d) : d[j].key = k].data

\* games_data[filename] = data: a new key goes last, a known key keeps its place
DictSet(d, k, data) ==
    IF HasKey(d, k)
    THEN [j \in 1..Len(d) |-> IF d[j].key = k THEN [key |-> k, data |-> data] ELSE d[j]]
    ELSE Append(d, [key |-> k, data |-> data])

\* the body of the loop over the rows of the reader
RECURSIVE LoadRows(_, _)
LoadRows(rows, d) ==
    IF rows = <<>> THEN d
    ELSE LET row == Head(rows)
             name == strip(row.Update_Filename)
             media_id == strip(row.Media_ID)
         IN  LoadRows(Tail(rows),
                      IF name # <<>> /\ media_id # <<>>
                      THEN DictSet(d, name,
                                   [title_name |-> strip(row.Title),
                                    version |-> strip(row.Update_Version),
                                    media_id |-> media_id])
                      ELSE d)

load_csv_data(rows) == LoadRows(rows, <<>>)

(***************************************************************************)
(* The inputs of a run: the rows of the CSV file and the directory.        *)
(***************************************************************************)
ID_A == <<"P", "C", "S", "A", "0", "0", "0", "0", "1">>
ID_E == <<"P", "C", "S", "E", "0", "0", "0", "0", "9">>

\* "UP1-PCSA00001_.pkg"
NameUP == <<"U", "P", "1", "-">> \o ID_A \o <<"_", ".", "p", "k", "g">>
\* "xUP1-PCSA00001_.pkg"
NameXUP == <<"x">> \o NameUP
\* "PCSA00001_.pkg"
NameTail == ID_A \o <<"_", ".", "p", "k", "g">>
\* "_.pkg"
NameEnd == <<"_", ".", "p", "k", "g">>
\* "a.PKG"
NameA == <<"a", ".", "P", "K", "G">>
\* "n.txt"
NameTxt == <<"n", ".", "t", "x", "t">>
\* "G [UPDATE 1.0][PCSA00001](axekin.com).pkg"
NameCanonical ==
    <<"G", " ", "[", "U", "P", "D", "A", "T", "E", " ", "1", ".", "0", "]", "[">>
        \o ID_A
        \o <<"]", "(", "a", "x", "e", "k", "i", "n", ".", "c", "o", "m", ")",
             ".", "p", "k", "g">>
\* "UP1-PCSA00001_ [UPDATE 2][PCSE00009](axekin.com).pkg"
NameCanonicalUP ==
    <<"U", "P", "1", "-">> \o ID_A
        \o <<"_", " ", "[", "U", "P", "D", "A", "T", "E", " ", "2", "]", "[">>
        \o ID_E
        \o <<"]", "(", "a", "x", "e", "k", "i", "n", ".", "c", "o", "m", ")",
             ".", "p", "k", "g">>

Row(name, media_id, title, version) ==
    [Update_Filename |-> name, Media_ID |-> media_id,
     Title |-> title, Update_Version |-> version]

\* the rows a CSV file is made of: exact keys and keys that are substrings of
\* a file name, two keys given twice, titles that are empty before or after
\* cleaning, fields to strip, a row without Media_ID
CsvRows ==
    { Row(NameUP, ID_E, <<"G">>, <<"1", ".", "0">>),
      Row(NameTail, ID_A, <<"G", ":">>, <<"1", ".", "0">>),
      Row(<<" ">> \o NameEnd \o <<" ">>, ID_A, <<" ", "?">>, <<"2", " ">>),
      Row(NameA, ID_A, <<"G">>, <<"1", ".", "0">>),
      Row(NameA, ID_A, <<>>, <<"1", ".", "0">>),
      Row(NameCanonical, ID_A, <<"Z">>, <<"3">>),
      Row(NameEnd, <<>>, <<"G">>, <<"1", ".", "0">>) }

\* the names a directory is made of
FileNames == {NameUP, NameXUP, NameA, NameTxt, NameCanonical, NameCanonicalUP}

SeqsUpTo(S, n) == UNION {[1..k -> S] : k \in 0..n}

Init ==
    /\ pc = "start"
    /\ csv_rows \in SeqsUpTo(CsvRows, MaxRows)
    /\ dir_exists \in BOOLEAN
    /\ dry_run \in BOOLEAN
    /\ fs \in {S \in SUBSET FileNames : Cardinality(S) <= MaxFiles}
    /\ (~dir_exists => fs = {})
    /\ games_data = <<>>
    /\ listing = <<>>
    /\ idx = 1
    /\ renamed_files = <<>>
    /\ errors = <<>>
    /\ filename = <<>>
    /\ game_data = NoRecord
    /\ title_id = None
    /\ arg = <<>>
    /\ ret = <<>>

(***************************************************************************)
(* rename_files                                                            *)
(***************************************************************************)
\* the entries of the two lists: f"{filename} -> {new_filename}" and
\* f"<message>: {name}"
Renamed(old, new) == [old |-> old, new |-> new]
Error(msg, name) == [msg |-> msg, name |-> name]

\* the pattern search without the substring condition
RECURSIVE SearchByPattern_IdOnly(_, _, _)
SearchByPattern_IdOnly(d, id, name) ==
    IF d = <<>> THEN NoRecord
    ELSE IF Head(d).data.media_id = id
         THEN Head(d).data
         ELSE SearchByPattern_IdOnly(Tail(d), id, name)

\* the for loop over games_data.items() of the pattern search
RECURSIVE SearchByPattern(_, _, _)
SearchByPattern(d, id, name) ==
    IF d = <<>> THEN NoRecord
    ELSE IF Head(d).data.media_id = id /\ Contains(name, Head(d).key)
         THEN Head(d).data
         ELSE SearchByPattern(Tail(d), id, name)

\* extract_title_id_from_filename, is_correctly_formatted and the extension
\* test, tabulated on the names of the directory
TitleIdOf == [n \in FileNames |-> extract_title_id_from_filename(n)]
FormattedOf == [n \in FileNames |-> is_correctly_formatted(n)]
PkgOf == [n \in FileNames |-> endswith(lower(n), <<".", "p", "k", "g">>)]

\* the pattern search tried before the exact key
Resolve_PatternFirst(d, name) ==
    LET id == TitleIdOf[name]
    IN  IF id # None /\ SearchByPattern(d, id, name) # NoRecord
        THEN [game_data |-> SearchByPattern(d, id, name), title_id |-> id]
        ELSE IF HasKey(d, name)
             THEN [game_data |-> Get(d, name), title_id |-> Get(d, name).media_id]
             ELSE [game_data |-> NoRecord, title_id |-> id]

\* game_data and title_id after the search for the data of a file
Resolve(d, name) ==
    IF HasKey(d, name)
    THEN [game_data |-> Get(d, name), title_id |-> Get(d, name).media_id]
    ELSE LET id == TitleIdOf[name]
         IN  [game_data |-> IF id = None THEN NoRecord
                            ELSE SearchByPattern(d, id, name),
              title_id |-> id]

\* filename.lower().endswith('.pkg')
IsPkg(name) == PkgOf[name]

\* the format check that skips a file, only made for names the table lacks
AlreadyFormatted_UnlessKey(d, name) == FormattedOf[name] /\ ~HasKey(d, name)

\* the format check that skips a file
AlreadyFormatted(d, name) == FormattedOf[name]

\* the target name of a file whose record has a title and a version
NewFilename(r) ==
    generate_new_filename(r.game_data.title_name, r.game_data.version, r.title_id)

\* the file reaches the search for its data
Searched(d, name) == IsPkg(name) /\ ~AlreadyFormatted(d, name)

\* the file reaches generate_new_filename
Planned(d, name) ==
    /\ Searched(d, name)
    /\ LET r == Resolve(d, name)
       IN  /\ r.title_id # None
           /\ r.game_data # NoRecord
           /\ r.game_data.title_name # <<>>
           /\ r.game_data.version # <<>>

NoDataLoaded ==
    /\ pc = "start"
    /\ load_csv_data(csv_rows) = <<>>
    /\ pc' = "done"
    /\ errors' = <<Error("No data loaded from CSV", <<>>)>>
    /\ UNCHANGED <<csv_rows, dir_exists, dry_run, games_data, listing, idx, fs,
                   renamed_files, filename, game_data, title_id, arg, ret>>

DirectoryNotFound ==
    /\ pc = "start"
    /\ load_csv_data(csv_rows) # <<>>
    /\ ~dir_exists
    /\ pc' = "done"
    /\ games_data' = load_csv_data(csv_rows)
    /\ errors' = <<Error("Directory not found", <<>>)>>
    /\ UNCHANGED <<csv_rows, dir_exists, dry_run, listing, idx, fs,
                   renamed_files, filename, game_data, title_id, arg, ret>>

\* os.listdir returns the names of the directory in an arbitrary order
ListDirectory ==
    /\ pc = "start"
    /\ load_csv_data(csv_rows) # <<>>
    /\ dir_exists
    /\ pc' = "loop"
    /\ games_data' = load_csv_data(csv_rows)
    /\ \E l \in [1..Cardinality(fs) -> fs] :
          /\ \A j, k \in 1..Cardinality(fs) : l[j] = l[k] => j = k
          /\ listing' = l
    /\ UNCHANGED <<csv_rows, dir_exists, dry_run, idx, fs, renamed_files,
                   errors, filename, game_data, title_id, arg, ret>>

InLoop == pc = "loop" /\ idx <= Len(listing)

\* the locals an iteration leaves behind when it got past the search
Iterate(r) ==
    /\ filename' = listing[idx]
    /\ game_data' = r.game_data
    /\ title_id' = r.title_id
    /\ idx' = idx + 1
    /\ UNCHANGED <<pc, csv_rows, dir_exists, dry_run, games_data, listing, arg, ret>>

SkipNotPkg ==
    /\ InLoop
    /\ ~IsPkg(listing[idx])
    /\ filename' = listing[idx]
    /\ idx' = idx + 1
    /\ UNCHANGED <<pc, csv_rows, dir_exists, dry_run, games_data, listing, fs,
                   renamed_files, errors, game_data, title_id, arg, ret>>

SkipCorrectlyFormatted ==
    /\ InLoop
    /\ IsPkg(listing[idx])
    /\ AlreadyFormatted(games_data, listing[idx])
    /\ filename' = listing[idx]
    /\ idx' = idx + 1
    /\ UNCHANGED <<pc, csv_rows, dir_exists, dry_run, games_data, listing, fs,
                   renamed_files, errors, game_data, title_id, arg, ret>>

CannotExtract ==
    /\ InLoop
    /\ Searched(games_data, listing[idx])
    /\ LET r == Resolve(games_data, listing[idx])
       IN  /\ r.title_id = None
           /\ errors' = Append(errors, Error("Cannot extract Title_ID from", listing[idx]))
           /\ Iterate(r)
    /\ UNCHANGED <<fs, renamed_files>>

NoDataFound ==
    /\ InLoop
    /\ Searched(games_data, listing[idx])
    /\ LET r == Resolve(games_data, listing[idx])
       IN  /\ r.title_id # None
           /\ r.game_data = NoRecord
           /\ errors' = Append(errors, Error("No data found for file", listing[idx]))
           /\ Iterate(r)
    /\ UNCHANGED <<fs, renamed_files>>

\* the iteration goes on without recording the error
MissingData_Silent ==
    /\ InLoop
    /\ Searched(games_data, listing[idx])
    /\ LET r == Resolve(games_data, listing[idx])
       IN  /\ r.title_id # None
           /\ r.game_data # NoRecord
           /\ r.game_data.title_name = <<>> \/ r.game_data.version = <<>>
           /\ Iterate(r)
    /\ UNCHANGED <<fs, renamed_files, errors>>

MissingData ==
    /\ InLoop
    /\ Searched(games_data, listing[idx])
    /\ LET r == Resolve(games_data, listing[idx])
       IN  /\ r.title_id # None
           /\ r.game_data # NoRecord
           /\ r.game_data.title_name = <<>> \/ r.game_data.version = <<>>
           /\ errors' = Append(errors, Error("Missing data for", listing[idx]))
           /\ Iterate(r)
    /\ UNCHANGED <<fs, renamed_files>>

DestinationExists ==
    /\ InLoop
    /\ Planned(games_data, listing[idx])
    /\ LET r == Resolve(games_data, listing[idx])
       IN  /\ NewFilename(r) \in fs
           /\ errors' = Append(errors,
                               Error("Destination file already exists", NewFilename(r)))
           /\ Iterate(r)
    /\ UNCHANGED <<fs, renamed_files>>

\* the simulation performs the rename as well
DryRunRename_Renames ==
    /\ InLoop
    /\ dry_run
    /\ Planned(games_data, listing[idx])
    /\ LET r == Resolve(games_data, listing[idx])
       IN  /\ NewFilename(r) \notin fs
           /\ fs' = (fs \ {listing[idx]}) \cup {NewFilename(r)}
           /\ renamed_files' = Append(renamed_files, Renamed(listing[idx], NewFilename(r)))
           /\ Iterate(r)
    /\ UNCHANGED errors

DryRunRename ==
    /\ InLoop
    /\ dry_run
    /\ Planned(games_data, listing[idx])
    /\ LET r == Resolve(games_data, listing[idx])
       IN  /\ NewFilename(r) \notin fs
           /\ renamed_files' = Append(renamed_files, Renamed(listing[idx], NewFilename(r)))
           /\ Iterate(r)
    /\ UNCHANGED <<fs, errors>>

\* os.rename without the check of the destination before it
RealRename_Unchecked ==
    /\ InLoop
    /\ ~dry_run
    /\ Planned(games_data, listing[idx])
    /\ LET r == Resolve(games_data, listing[idx])
       IN  /\ fs' = (fs \ {listing[idx]}) \cup {NewFilename(r)}
           /\ renamed_files' = Append(renamed_files, Renamed(listing[idx], NewFilename(r)))
           /\ Iterate(r)
    /\ UNCHANGED errors

RealRename ==
    /\ InLoop
    /\ ~dry_run
    /\ Planned(games_data, listing[idx])
    /\ LET r == Resolve(games_data, listing[idx])
       IN  /\ NewFilename(r) \notin fs
           /\ fs' = (fs \ {listing[idx]}) \cup {NewFilename(r)}
           /\ renamed_files' = Append(renamed_files, Renamed(listing[idx], NewFilename(r)))
           /\ Iterate(r)
    /\ UNCHANGED errors

\* os.rename raises OSError and renames nothing
RenameFails ==
    /\ InLoop
    /\ ~dry_run
    /\ Planned(games_data, listing[idx])
    /\ LET r == Resolve(games_data, listing[idx])
       IN  /\ NewFilename(r) \notin fs
           /\ errors' = Append(errors, Error("Error renaming", listing[idx]))
           /\ Iterate(r)
    /\ UNCHANGED <<fs, renamed_files>>

Return ==
    /\ pc = "loop"
    /\ idx > Len(listing)
    /\ pc' = "done"
    /\ UNCHANGED <<csv_rows, dir_exists, dry_run, games_data, listing, idx, fs,
                   renamed_files, errors, filename, game_data, title_id, arg, ret>>

Next ==
    \/ NoDataLoaded
    \/ DirectoryNotFound
    \/ ListDirectory
    \/ SkipNotPkg
    \/ SkipCorrectlyFormatted
    \/ CannotExtract
    \/ NoDataFound
    \/ MissingData
    \/ DestinationExists
    \/ DryRunRename
    \/ RealRename
    \/ RenameFails
    \/ Return

Spec == Init /\ [][Next]_vars

(***************************************************************************)
(* Calls of the pure functions on inputs drawn from bounded sets.          *)
(***************************************************************************)
Idle ==
    /\ csv_rows = <<>>
    /\ dir_exists = FALSE
    /\ dry_run = TRUE
    /\ games_data = <<>>
    /\ listing = <<>>
    /\ idx = 1
    /\ fs = {}
    /\ renamed_files = <<>>
    /\ errors = <<>>
    /\ filename = <<>>
    /\ game_data = NoRecord
    /\ title_id = None

UnchangedRun ==
    UNCHANGED <<csv_rows, dir_exists, dry_run, games_data, listing, idx, fs,
                renamed_files, errors, filename, game_data, title_id>>

\* a forbidden character, other special characters, whitespace, a word
\* character and allowed punctuation
TitleChars == {":", "!", "&", " ", "\t", "a", "-", "["}

InitClean ==
    /\ pc = "clean_title_name"
    /\ arg \in SeqsUpTo(TitleChars, MaxTitleLen)
    /\ ret = <<>>
    /\ Idle

\* clean_title_name(arg), then clean_title_name of its result
Sanitize ==
    /\ pc = "clean_title_name"
    /\ Len(ret) < 2
    /\ ret' = Append(ret, clean_title_name(IF ret = <<>> THEN arg ELSE ret[1]))
    /\ UNCHANGED <<pc, arg>>
    /\ UnchangedRun

SpecClean == InitClean /\ [][Sanitize]_vars

RECURSIVE Concat(_)
Concat(parts) == IF parts = <<>> THEN <<>> ELSE Head(parts) \o Concat(Tail(parts))

\* region prefixes, identifiers between their separators, filler
NameParts ==
    { <<"U", "P", "1">>, <<"H", "P", "2">>, <<"E", "P", "3">>, <<"J", "P", "4">>,
      <<"-", "P", "C", "S", "B", "0", "0", "0", "0", "1", "_">>,
      <<"-", "P", "C", "S", "A", "0", "0", "0", "0", "7", "_">>,
      <<"-", "P", "C", "S", "E", "0", "0", "0", "3", "_">>,
      <<"x">> }

\* "EP9000-PCSB00001_00-0000000000000000-A0102-V0100.pkg"
NameExample ==
    <<"E", "P", "9", "0", "0", "0", "-", "P", "C", "S", "B", "0", "0", "0", "0", "1",
      "_", "0", "0", "-", "0", "0", "0", "0", "0", "0", "0", "0", "0", "0", "0", "0",
      "0", "0", "0", "0", "-", "A", "0", "1", "0", "2", "-", "V", "0", "1", "0", "0",
      ".", "p", "k", "g">>

InitExtract ==
    /\ pc = "extract_title_id_from_filename"
    /\ arg \in {Concat(parts) : parts \in SeqsUpTo(NameParts, MaxParts)} \cup {NameExample}
    /\ ret = <<>>
    /\ Idle

ExtractTitleId ==
    /\ pc = "extract_title_id_from_filename"
    /\ pc' = "extracted"
    /\ ret' = <<extract_title_id_from_filename(arg)>>
    /\ UNCHANGED arg
    /\ UnchangedRun

SpecExtract == InitExtract /\ [][ExtractTitleId]_vars

(***************************************************************************)
(* Properties.                                                             *)
(***************************************************************************)
Range(s) == {s[j] : j \in 1..Len(s)}

\* the loop is running or has returned
Scanned == pc \in {"loop", "done"} /\ dir_exists /\ games_data # <<>>

\* the file the loop handled last reached the search for its data
LastSearched == Scanned /\ idx > 1 /\ Searched(games_data, listing[idx - 1])

\* the target name the table gives the file at position j of the listing
TargetOf(j) == NewFilename(Resolve(games_data, listing[j]))

\* C1: of two files of the listing with the same target name, once the first
\* is in the renamed list (applied, or simulated in dry-run mode), the second
\* is not in the renamed list and is reported as "Destination file already
\* exists".
C1_SecondIsDestinationExists ==
    Scanned =>
        \A j, k \in 1..(idx - 1) :
            ( /\ j < k
              /\ Planned(games_data, listing[j])
              /\ Planned(games_data, listing[k])
              /\ TargetOf(j) = TargetOf(k)
              /\ Renamed(listing[j], TargetOf(j)) \in Range(renamed_files) )
            => /\ \A e \in Range(renamed_files) : e.old # listing[k]
               /\ Error("Destination file already exists", TargetOf(k)) \in Range(errors)

\* C2: the iteration on a correctly formatted name changes neither list nor
\* the directory, whether or not the name is a key of the table or holds an
\* identifier; such a file is never the source of a rename and stays in place.
C2_Step ==
    (InLoop /\ is_correctly_formatted(listing[idx]))
        => /\ renamed_files' = renamed_files
           /\ errors' = errors
           /\ fs' = fs

C2_State ==
    Scanned =>
        \A j \in 1..Len(listing) :
            is_correctly_formatted(listing[j])
                => /\ listing[j] \in fs
                   /\ \A e \in Range(renamed_files) : e.old # listing[j]

C2_CorrectlyFormattedSkipped == []C2_State /\ [][C2_Step]_vars

C2_Witness ==
    /\ pc = "done"
    /\ Scanned
    /\ \E j, k \in 1..Len(listing) :
          /\ is_correctly_formatted(listing[j])
          /\ HasKey(games_data, listing[j])
          /\ is_correctly_formatted(listing[k])
          /\ extract_title_id_from_filename(listing[k]) # None

\* C3: in dry-run mode the names in the directory stay those of the listing,
\* and every file that has a plan whose target is free is reported in the
\* renamed list.
C3_DryRunKeepsDirectory ==
    (dry_run /\ Scanned) =>
        /\ fs = Range(listing)
        /\ \A j \in 1..(idx - 1) :
              (Planned(games_data, listing[j]) /\ TargetOf(j) \notin fs)
                  => Renamed(listing[j], TargetOf(j)) \in Range(renamed_files)

C3_Witness ==
    /\ dry_run
    /\ pc = "done"
    /\ renamed_files # <<>>
    /\ renamed_files[1].old \in fs
    /\ renamed_files[1].new \notin fs

\* C4: every target name in the renamed list satisfies is_correctly_formatted.
C4_TargetsRoundTrip ==
    \A j \in 1..Len(renamed_files) : is_correctly_formatted(renamed_files[j].new)

\* the records a pattern search for the file may select: same identifier, and
\* the table filename is a substring of the name
Candidates(name) ==
    LET id == extract_title_id_from_filename(name)
    IN  {j \in 1..Len(games_data) :
            /\ games_data[j].data.media_id = id
            /\ Contains(name, games_data[j].key)}

\* the file handled last had no exact key and an identifier was extracted
LastByPattern ==
    /\ LastSearched
    /\ ~HasKey(games_data, listing[idx - 1])
    /\ extract_title_id_from_filename(listing[idx - 1]) # None

\* C5: for a file without an exact key from which an identifier is extracted,
\* a record is found iff some record has that identifier and a table filename
\* that is a substring of the name; the first such record in table order is
\* the one found; otherwise the file gets the "No data found for file" error.
C5_PatternMatch ==
    LastByPattern =>
        LET name == listing[idx - 1]
            found == Candidates(name)
        IN  /\ title_id = extract_title_id_from_filename(name)
            /\ (game_data # NoRecord) <=> (found # {})
            /\ found # {} =>
                  /\ game_data = games_data[Min(found)].data
                  /\ Error("No data found for file", name) \notin Range(errors)
            /\ found = {} =>
                  /\ errors # <<>>
                  /\ errors[Len(errors)] = Error("No data found for file", name)

C5_Witness ==
    /\ LastByPattern
    /\ Cardinality(Candidates(listing[idx - 1])) = 2
    /\ games_data[1].data # games_data[2].data
    /\ game_data = games_data[1].data

\* the file handled last is a key of the table
LastByKey == LastSearched /\ HasKey(games_data, listing[idx - 1])

\* C6: for a file whose name is a key of the table, the record found is the
\* one of that key and the matched identifier is that record's media_id,
\* whatever the extractor returns for the name; the file gets neither of the
\* two resolution errors and a rename of it uses that identifier.
C6_ExactMatchFirst ==
    LastByKey =>
        LET name == listing[idx - 1]
            data == Get(games_data, name)
        IN  /\ game_data = data
            /\ title_id = data.media_id
            /\ Error("Cannot extract Title_ID from", name) \notin Range(errors)
            /\ Error("No data found for file", name) \notin Range(errors)
            /\ \A e \in Range(renamed_files) :
                  e.old = name
                      => e.new = generate_new_filename(data.title_name, data.version,
                                                       data.media_id)

C6_Witness ==
    /\ LastByKey
    /\ extract_title_id_from_filename(listing[idx - 1]) # None
    /\ extract_title_id_from_filename(listing[idx - 1]) # title_id
    /\ renamed_files # <<>>
    /\ renamed_files[Len(renamed_files)].old = listing[idx - 1]

\* the files of the listing handled so far that are .pkg files and not
\* correctly formatted
Handled ==
    {j \in 1..(idx - 1) : IsPkg(listing[j]) /\ ~is_correctly_formatted(listing[j])}

\* C7: once the table is non-empty and the directory exists, the iteration on
\* a .pkg file that is not correctly formatted appends exactly one entry to
\* exactly one of the two lists and moves to the next file, so the two lists
\* together hold one entry per such file handled.
C7_Step ==
    (Scanned /\ InLoop /\ IsPkg(listing[idx]) /\ ~is_correctly_formatted(listing[idx]))
        => /\ idx' = idx + 1
           /\ pc' = "loop"
           /\ \/ /\ Len(renamed_files') = Len(renamed_files) + 1
                 /\ errors' = errors
              \/ /\ Len(errors') = Len(errors) + 1
                 /\ renamed_files' = renamed_files

C7_Count ==
    Scanned =>
        /\ Len(renamed_files) + Len(errors) = Cardinality(Handled)
        /\ pc = "done" => idx = Len(listing) + 1

C7_OneOutcomePerFile == []C7_Count /\ [][C7_Step]_vars

C7_Witness ==
    /\ pc = "done"
    /\ Scanned
    /\ Len(listing) = 2
    /\ Len(errors) = 1
    /\ Len(renamed_files) = 1
    /\ renamed_files[1].old = listing[2]

\* C10: in real mode, after any prefix of the listing the directory holds as
\* many names as at the start, every file that is not the source of an entry
\* of the renamed list is there under its name, and every entry's target is
\* there.
C10_NothingLost ==
    (~dry_run /\ Scanned) =>
        /\ Cardinality(fs) = Len(listing)
        /\ \A j \in 1..Len(listing) :
              (\A e \in Range(renamed_files) : e.old # listing[j]) => listing[j] \in fs
        /\ \A e \in Range(renamed_files) : e.new \in fs

C10_Witness ==
    /\ ~dry_run
    /\ pc = "done"
    /\ Len(renamed_files) = 1
    /\ Error("Destination file already exists", renamed_files[1].new) \in Range(errors)

\* C8: clean_title_name applied to its own result returns that result.
C8_Idempotent ==
    (pc = "clean_title_name" /\ Len(ret) = 2) => ret[2] = ret[1]

C8_Witness ==
    /\ pc = "clean_title_name"
    /\ Len(ret) = 2
    /\ ret[1] # arg
    /\ ret[1] # <<>>
    /\ Len(ret[1]) < Len(arg) - 1

\* the captures of the five rules in their order
Rules(name) ==
    << SearchPC(name), SearchRegion(name, <<"U", "P">>), SearchRegion(name, <<"H", "P">>),
       SearchRegion(name, <<"E", "P">>), SearchRegion(name, <<"J", "P">>) >>

\* C9: the result is the capture of the first rule, in the order PC, UP, HP,
\* EP, JP, that matches, or None; and in "EP9000-PCSB00001_00-..." both the
\* PC rule and the EP rule match and the result is the capture of the PC rule.
C9_FirstRuleWins ==
    pc = "extracted" =>
        LET hits == {k \in 1..5 : Rules(arg)[k] # None}
        IN  /\ ret[1] = IF hits = {} THEN None ELSE Rules(arg)[Min(hits)]
            /\ arg = NameExample =>
                  /\ Rules(arg)[1] # None
                  /\ Rules(arg)[4] # None
                  /\ ret[1] = Rules(arg)[1]

====
